---- MODULE Spec2Model ----
(***************************************************************************)
(* Model of the source synchronisation and chunking pipeline of brain:    *)
(*   - the token-window chunker (loaders/chunker.rs), as the loop it is;   *)
(*   - the update run, the index commands, the vector store and the        *)
(*     metadata store (main.rs, server/mod.rs, storage/mod.rs,             *)
(*     scheduler/mod.rs) as a state machine over one process at a time.    *)
(* Two specifications share the module: SpecChunk (the chunker) and Spec   *)
(* (index / update run).  Each leaves the other's variables untouched.     *)
(***************************************************************************)
EXTENDS Integers, Sequences, FiniteSets, Bags, TLC

VARIABLES
    \* ---- chunker (TextChunker::chunk) ----
    text,           \* the input text, a sequence of one-character strings
    chunk_size,     \* TextChunker.chunk_size
    chunk_overlap,  \* TextChunker.chunk_overlap
    words,          \* local `words`
    start,          \* local `start`
    index,          \* local `index`
    chunks,         \* local `chunks`
    cpc,            \* position in chunk(): "call", "loop", "done"; in
                    \* chunk_by_paragraphs(): "para_call", "para_loop"; in
                    \* chunk_code(): "code_call", "code_loop"
    \* ---- chunker (chunk_by_paragraphs, chunk_code) ----
    paragraphs,     \* the part of local `paragraphs` the for loop has not reached
    current_chunk,  \* local `current_chunk`
    lines,          \* the part of local `lines` the for loop has not reached
    current_lines,  \* local `current_lines`
    current_size,   \* local `current_size`
    chunk_lines,    \* history: the lines of each chunk chunk_code pushed
    after_drop,     \* history: the chunks chunk_code pushed after it had flushed
                    \* a whitespace-only buffer without pushing it
    dropped,        \* history: a whitespace-only buffer was flushed since the last push
    \* ---- the world outside the process ----
    upstream,       \* git source -> commit at the tip of the remote branch
    tree,           \* source -> commit checked out in the local clone (0: no such path)
    table,          \* the vector store's table: the bag of the batches it holds
    disk,           \* the metadata file: sourceId -> SourceMetadata
    now,            \* Utc::now(), one tick per invocation
    \* ---- the running command (handle_index, add_*_source, handle_update_run) ----
    pc,             \* "idle" (no command running), "gate", "loop", "index"
    cmd,            \* the command that runs: "none", "index", "run"
    entry,          \* which entry point indexes: "cli" or "http"
    force,          \* handle_update_run: parameter force
    in_window,      \* handle_update_run: local in_window
    mem,            \* local metadata_store
    listed,         \* local indexed_sources
    todo,           \* the part of indexed_sources the for loop has not reached
    cur,            \* the source being indexed
    docs_ver,       \* local documents: the commit they were load_results from
    total_indexed,  \* index_documents_simple: chunks inserted so far
    updated,        \* local updated: source -> count
    skipped,        \* local skipped: source -> reason
    \* ---- history (read by the properties only) ----
    ops,            \* storage and metadata calls of the running command, in order
    last_load,      \* source -> commit of its most recent load
    emptied,        \* sources deleted by a run that failed before re-inserting any chunk
    prev_synced,    \* sources the preceding run refreshed or found up to date, and
                    \* that no one touched since
    any_failed,     \* some call failed since Init
    run_failed,     \* some call failed in the running (or last) command
    \* ---- one call of a function of the scheduler ----
    fn,             \* the function called
    args,           \* its arguments and the fields of self it reads
    ret,            \* <<v>> once it has returned v, <<>> before
    \* ---- one call of index_documents_simple / index_documents, chunk by chunk ----
    documents,      \* parameter documents: the number of chunks of each document
    doc_i,          \* the document the outer for loop is at (1-based)
    chunk_i,        \* the chunks of that document the inner for loop has done
    batch,          \* local batch: the chunks embedded and not yet inserted
    n_indexed,      \* local total_indexed of this call
    inserted,       \* history: the batches of the insert calls that succeeded, in order
    failed_call,        \* history: the call that failed, and the document it failed in
    ipc,            \* "loop", "ok" (returned Ok(total_indexed)), "err" (returned Err)
    \* ---- update check ----
    interval_hours, \* Scheduler::check_interval_hours
    results,        \* local results of handle_update_check: source -> (needs_update, reason)
    \* ---- the HTTP server ----
    reqs,           \* the add_github_source requests in flight: source, position,
                    \* local metadata_store of save_source_metadata, logged warning
    \* ---- one call of load_repo / load_directory ----
    variant,        \* "github" (GitHubLoader::load_repo) or "local" (LocalLoader::load_directory)
    root_named,     \* the root path has a final component (file_name() is Some)
    entries,        \* what the directory walk yields, in walk order
    entry_i,        \* the entry the for loop is at (1-based)
    load_results,         \* local results: the entries pushed, as (index, mode)
    lpc             \* "walk", "ok" (returned Ok(results)), "panic"

modeVars == <<paragraphs, current_chunk, lines, current_lines, current_size,
              chunk_lines, after_drop, dropped>>

chunkVars == <<text, chunk_size, chunk_overlap, words, start, index, chunks, cpc, modeVars>>

worldVars == <<upstream, tree, table, disk, now>>

procVars == <<pc, cmd, entry, force, in_window, mem, listed, todo, cur, docs_ver,
              total_indexed, updated, skipped>>

histVars == <<ops, last_load, emptied, prev_synced, any_failed, run_failed>>

runVars == <<worldVars, procVars, histVars>>

schedVars == <<fn, args, ret>>

batchVars == <<documents, doc_i, chunk_i, batch, n_indexed, inserted, failed_call, ipc>>

checkVars == <<interval_hours, results>>

httpVars == <<reqs>>

loadVars == <<variant, root_named, entries, entry_i, load_results, lpc>>

otherVars == <<checkVars, httpVars, loadVars>>

vars == <<chunkVars, runVars, schedVars, batchVars, otherVars>>

\* No update check, for the specifications that make none.
CheckParked == interval_hours = 0 /\ results = <<>>

\* No request in flight, for the specifications without the server.
HttpParked == reqs = <<>>

\* No discovery pass, for the specifications without the loaders.
LoadParked ==
    /\ variant = "none" /\ root_named = TRUE /\ entries = <<>> /\ entry_i = 0
    /\ load_results = <<>> /\ lpc = "parked"

OtherParked == CheckParked /\ HttpParked /\ LoadParked

\* No chunk-by-chunk indexing call, for the specifications that make none.
BatchParked ==
    /\ documents = <<>> /\ doc_i = 0 /\ chunk_i = 0 /\ batch = <<>> /\ n_indexed = 0
    /\ inserted = <<>> /\ failed_call = <<>> /\ ipc = "parked"

\* No function of the scheduler is called, for the specifications that call none.
SchedParked == fn = "none" /\ args = <<>> /\ ret = <<>>

\* The index / update-run machine at rest, for the specifications that do not use it.
RunParked ==
    /\ upstream = <<>> /\ tree = <<>> /\ table = <<>> /\ disk = <<>> /\ now = 0
    /\ pc = "parked" /\ cmd = "none" /\ entry = "cli" /\ force = FALSE /\ in_window = FALSE
    /\ mem = <<>> /\ listed = {} /\ todo = {} /\ cur = "none" /\ docs_ver = 0
    /\ total_indexed = 0 /\ updated = <<>> /\ skipped = <<>> /\ ops = <<>> /\ last_load = <<>> /\ emptied = {} /\ prev_synced = {}
    /\ any_failed = FALSE /\ run_failed = FALSE

\* The locals of chunk_by_paragraphs and chunk_code before the call.
ModeParked ==
    /\ paragraphs = <<>> /\ current_chunk = <<>> /\ lines = <<>> /\ current_lines = <<>>
    /\ current_size = 0 /\ chunk_lines = <<>> /\ after_drop = {} /\ dropped = FALSE

\* The chunker at rest, for the specifications that do not use it.
ChunkParked ==
    /\ text = <<>> /\ chunk_size = 0 /\ chunk_overlap = 0 /\ words = <<>>
    /\ start = 0 /\ index = 0 /\ chunks = <<>> /\ cpc = "parked"
    /\ ModeParked

----------------------------------------------------------------------------
\* Bounds of the chunker inputs.
MaxTextLen == 7
MaxParam == 3
MaxChunks == 4

Chars == {"a", "b", " "}

IsWhitespace(c) == c \in {" ", "\n"}

Min(a, b) == IF a < b THEN a ELSE b

\* usize::saturating_sub
SatSub(a, b) == IF a >= b THEN a - b ELSE 0

RECURSIVE SeqsUpTo(_, _)
SeqsUpTo(S, n) ==
    IF n = 0 THEN {<<>>}
    ELSE LET shorter == SeqsUpTo(S, n - 1)
         IN shorter \cup {Append(s, c) : s \in {t \in shorter : Len(t) = n - 1}, c \in S}

\* str::split_whitespace: the maximal runs of non-whitespace characters, in order.
RECURSIVE SplitFrom(_, _, _)
SplitFrom(t, i, word) ==
    IF i > Len(t) THEN (IF word = <<>> THEN <<>> ELSE <<word>>)
    ELSE IF IsWhitespace(t[i])
         THEN (IF word = <<>> THEN SplitFrom(t, i + 1, <<>>)
               ELSE <<word>> \o SplitFrom(t, i + 1, <<>>))
         ELSE SplitFrom(t, i + 1, Append(word, t[i]))

split_whitespace(t) == SplitFrom(t, 1, <<>>)

\* [&str]::join(sep)
RECURSIVE join(_, _)
join(ws, sep) ==
    IF ws = <<>> THEN <<>>
    ELSE IF Len(ws) = 1 THEN ws[1]
    ELSE ws[1] \o sep \o join(Tail(ws), sep)

\* content.trim().is_empty()
TrimIsEmpty(t) == \A i \in 1..Len(t) : IsWhitespace(t[i])

\* &words[start..end], with 0-based half-open bounds as in the source
Slice(ws, from, to) == SubSeq(ws, from + 1, to)

\* line 32: let end = (start + self.chunk_size).min(words.len())
WindowEnd(s) == Min(s + chunk_size, Len(words))

\* line 45: start = end.saturating_sub(self.chunk_overlap)
NextStartPlusOne(end) == SatSub(end, chunk_overlap + 1)
NextStartNoOverlap(end) == end
NextStart(end) == SatSub(end, chunk_overlap)

\* lines 36-39: a window with non-blank content is pushed with the next index
PushAlways(cs, content, idx) == Append(cs, [content |-> content, index |-> idx])
Push(cs, content, idx) ==
    IF ~TrimIsEmpty(content) THEN Append(cs, [content |-> content, index |-> idx]) ELSE cs

ChunkInit ==
    /\ text \in SeqsUpTo(Chars, MaxTextLen)
    /\ chunk_size \in 0..MaxParam
    /\ chunk_overlap \in 0..MaxParam
    /\ words = <<>>
    /\ start = 0
    /\ index = 0
    /\ chunks = <<>>
    /\ cpc = "call"
    /\ ModeParked
    /\ RunParked
    /\ SchedParked
    /\ BatchParked
    /\ OtherParked

\* lines 21-29: split, return early on no words, else enter the loop
ChunkCall ==
    /\ cpc = "call"
    /\ words' = split_whitespace(text)
    /\ cpc' = IF words' = <<>> THEN "done" ELSE "loop"
    /\ UNCHANGED <<text, chunk_size, chunk_overlap, start, index, chunks>>
    /\ UNCHANGED modeVars
    /\ UNCHANGED <<runVars, schedVars, batchVars, otherVars>>

\* lines 31-46: one iteration of the while loop
ChunkLoop ==
    /\ cpc = "loop"
    /\ Len(chunks) < MaxChunks
    /\ IF start < Len(words)
       THEN LET end == WindowEnd(start)
                content == join(Slice(words, start, end), <<" ">>)
            IN /\ chunks' = Push(chunks, content, index)
               /\ index' = IF Len(chunks') > Len(chunks) THEN index + 1 ELSE index
               /\ IF end >= Len(words)
                  THEN /\ cpc' = "done"
                       /\ start' = start
                  ELSE /\ cpc' = "loop"
                       /\ start' = NextStart(end)
       ELSE /\ cpc' = "done"
            /\ UNCHANGED <<start, index, chunks>>
    /\ UNCHANGED <<text, chunk_size, chunk_overlap, words>>
    /\ UNCHANGED modeVars
    /\ UNCHANGED <<runVars, schedVars, batchVars, otherVars>>

ChunkNext == ChunkCall \/ ChunkLoop

SpecChunk == ChunkInit /\ [][ChunkNext]_vars

----------------------------------------------------------------------------
\* Token-window chunking: properties.

\* The whitespace tokens of a chunk's content.
Tokens(c) == split_whitespace(c.content)

\* min(chunkOverlap, chunkSize)
SharedTokens == Min(chunk_overlap, chunk_size)

DropFirst(s, k) == SubSeq(s, k + 1, Len(s))
LastOf(s, k) == SubSeq(s, Len(s) - k + 1, Len(s))

\* Re-join the chunks in order, dropping each chunk's overlap with its predecessor.
RECURSIVE RejoinFrom(_, _)
RejoinFrom(cs, i) ==
    IF i > Len(cs) THEN <<>>
    ELSE (IF i = 1 THEN Tokens(cs[i]) ELSE DropFirst(Tokens(cs[i]), SharedTokens))
         \o RejoinFrom(cs, i + 1)

Rejoin(cs) == RejoinFrom(cs, 1)

RECURSIVE TotalTokens(_)
TotalTokens(cs) == IF cs = <<>> THEN 0 ELSE Len(Tokens(Head(cs))) + TotalTokens(Tail(cs))

\* C8: chunk() terminates for all inputs and parameters: from one window to the
\* next the window start advances.  (Stated of the loop: every iteration that
\* stays in the loop moves `start` forward.)
C8_StartAdvances == [][(cpc = "loop" /\ cpc' = "loop") => start' > start]_vars

\* C9: the chunks returned by chunk() cover the input: re-joined without the
\* overlaps they are the original token sequence, nothing lost or reordered.
C9_Cover == cpc = "done" => Rejoin(chunks) = words

C9_Witness ==
    /\ cpc = "done"
    /\ Len(chunks) >= 3
    /\ chunk_overlap >= 1
    /\ Rejoin(chunks) = words

\* C10: consecutive chunks share exactly min(chunkOverlap, chunkSize) tokens (the
\* tail of one is the head of the next), no chunk has more than chunkSize
\* tokens, and every chunk but the last has exactly chunkSize tokens.
C10_Overlap ==
    /\ \A i \in 1..Len(chunks) :
          /\ Len(Tokens(chunks[i])) <= chunk_size
          /\ i < Len(chunks) =>
                /\ Len(Tokens(chunks[i])) = chunk_size
                /\ Len(Tokens(chunks[i + 1])) >= SharedTokens
                /\ LastOf(Tokens(chunks[i]), SharedTokens)
                      = SubSeq(Tokens(chunks[i + 1]), 1, SharedTokens)
    /\ (cpc = "done" /\ chunks # <<>>) =>
          TotalTokens(chunks) = Len(words) + SharedTokens * (Len(chunks) - 1)

C10_Witness ==
    /\ cpc = "done"
    /\ Len(chunks) >= 3
    /\ chunk_overlap = 1
    /\ chunk_size = 2
    /\ Len(Tokens(chunks[Len(chunks)])) = 2

----------------------------------------------------------------------------
\* Paragraph mode and line mode (chunk_by_paragraphs, chunk_code).

\* Bounds of their inputs, in lines of text.
MaxParaLines == 5
MaxLines == 8
MaxModeLines == 4

\* chunker.rs:107: current_lines.len().saturating_sub(5)
OverlapLines == 5

\* The lines the input texts are made of: empty, blank, one token.
LineKinds == {<<>>, <<" ">>, <<"a">>}
ParaLineKinds == LineKinds \cup {<<"b">>}

\* The texts of at most n lines, each of one of the kinds K
Texts(K, n) == {join(ls, <<"\n">>) : ls \in SeqsUpTo(K, n)}

\* str::split("\n\n"): the pieces between the non-overlapping occurrences of
\* the separator, found from the left; always at least one piece.
RECURSIVE SplitBlankFrom(_, _, _)
SplitBlankFrom(t, i, piece) ==
    IF i > Len(t) THEN <<piece>>
    ELSE IF i < Len(t) /\ t[i] = "\n" /\ t[i + 1] = "\n"
         THEN <<piece>> \o SplitBlankFrom(t, i + 2, <<>>)
         ELSE SplitBlankFrom(t, i + 1, Append(piece, t[i]))

split_paragraphs(t) == SplitBlankFrom(t, 1, <<>>)

\* str::lines: the pieces between line feeds; a final empty piece is no line.
RECURSIVE SplitLinesFrom(_, _, _)
SplitLinesFrom(t, i, piece) ==
    IF i > Len(t) THEN (IF piece = <<>> THEN <<>> ELSE <<piece>>)
    ELSE IF t[i] = "\n"
         THEN <<piece>> \o SplitLinesFrom(t, i + 1, <<>>)
         ELSE SplitLinesFrom(t, i + 1, Append(piece, t[i]))

str_lines(t) == SplitLinesFrom(t, 1, <<>>)

\* str::trim
RECURSIVE TrimStart(_)
TrimStart(t) == IF t # <<>> /\ IsWhitespace(Head(t)) THEN TrimStart(Tail(t)) ELSE t

RECURSIVE TrimEnd(_)
TrimEnd(t) ==
    IF t # <<>> /\ IsWhitespace(t[Len(t)]) THEN TrimEnd(SubSeq(t, 1, Len(t) - 1)) ELSE t

trim(t) == TrimEnd(TrimStart(t))

\* x.split_whitespace().count()
WordCount(t) == Len(split_whitespace(t))

\* lines 61 and 100: current_size + n > self.chunk_size && !current.is_empty()
Overflows(size, n, buffer) == size + n > chunk_size /\ buffer # <<>>

\* lines 73-76: push_str("\n\n") unless the buffer is empty, then push_str(para)
AppendParaReplacing(buffer, para) == para
AppendPara(buffer, para) ==
    IF buffer # <<>> THEN buffer \o <<"\n", "\n">> \o para ELSE para

\* lines 107-108: current_lines[overlap_start..]
OverlapSeedShorter(ls) == SubSeq(ls, SatSub(Len(ls), OverlapLines - 1) + 1, Len(ls))
OverlapSeed(ls) == SubSeq(ls, SatSub(Len(ls), OverlapLines) + 1, Len(ls))

\* lines 109-112: the sum of the word counts of the lines
RECURSIVE SizeOf(_)
SizeOf(ls) == IF ls = <<>> THEN 0 ELSE WordCount(Head(ls)) + SizeOf(Tail(ls))

\* The locals of both functions at their declaration (lines 53-56, 92-95)
ModeLocals ==
    /\ words = <<>> /\ start = 0 /\ index = 0 /\ chunks = <<>>
    /\ ModeParked

ParaInit ==
    /\ text \in Texts(ParaLineKinds, MaxParaLines)
    /\ chunk_size \in 0..MaxParam
    /\ chunk_overlap = 0
    /\ cpc = "para_call"
    /\ ModeLocals
    /\ RunParked
    /\ SchedParked
    /\ BatchParked
    /\ OtherParked

\* line 52: text.split("\n\n")
ParaCall ==
    /\ cpc = "para_call"
    /\ paragraphs' = split_paragraphs(text)
    /\ cpc' = "para_loop"
    /\ UNCHANGED <<text, chunk_size, chunk_overlap, words, start, index, chunks,
                   current_chunk, lines, current_lines, current_size, chunk_lines,
                   after_drop, dropped>>
    /\ UNCHANGED <<runVars, schedVars, batchVars, otherVars>>

\* lines 58-78: one iteration of the for loop; lines 80-87 once it is over
ParaLoop ==
    /\ cpc = "para_loop"
    /\ IF paragraphs # <<>>
       THEN LET para == Head(paragraphs)
                para_words == WordCount(para)
                flush == Overflows(current_size, para_words, current_chunk)
            IN /\ chunks' = IF flush THEN Push(chunks, trim(current_chunk), index)
                            ELSE chunks
               /\ index' = IF Len(chunks') > Len(chunks) THEN index + 1 ELSE index
               /\ current_chunk' = AppendPara(IF flush THEN <<>> ELSE current_chunk, para)
               /\ current_size' = (IF flush THEN 0 ELSE current_size) + para_words
               /\ paragraphs' = Tail(paragraphs)
               /\ cpc' = "para_loop"
       ELSE /\ chunks' = Push(chunks, trim(current_chunk), index)
            /\ cpc' = "done"
            /\ UNCHANGED <<index, current_chunk, current_size, paragraphs>>
    /\ UNCHANGED <<text, chunk_size, chunk_overlap, words, start, lines, current_lines,
                   chunk_lines, after_drop, dropped>>
    /\ UNCHANGED <<runVars, schedVars, batchVars, otherVars>>

ParaNext == ParaCall \/ ParaLoop

SpecPara == ParaInit /\ [][ParaNext]_vars

CodeInit ==
    /\ text \in Texts(LineKinds, MaxLines)
    /\ chunk_size \in 0..MaxParam
    /\ chunk_overlap = 0
    /\ cpc = "code_call"
    /\ ModeLocals
    /\ RunParked
    /\ SchedParked
    /\ BatchParked
    /\ OtherParked

\* line 91: code.lines()
CodeCall ==
    /\ cpc = "code_call"
    /\ lines' = str_lines(text)
    /\ cpc' = "code_loop"
    /\ UNCHANGED <<text, chunk_size, chunk_overlap, words, start, index, chunks,
                   paragraphs, current_chunk, current_lines, current_size, chunk_lines,
                   after_drop, dropped>>
    /\ UNCHANGED <<runVars, schedVars, batchVars, otherVars>>

\* lines 97-117: one iteration of the for loop; lines 119-126 once it is over
CodeLoop ==
    /\ cpc = "code_loop"
    /\ LET content == join(current_lines, <<"\n">>)
       IN IF lines # <<>>
          THEN LET line == Head(lines)
                   line_words == WordCount(line)
                   flush == Overflows(current_size, line_words, current_lines)
                   kept == IF flush THEN OverlapSeed(current_lines) ELSE current_lines
               IN /\ chunks' = IF flush THEN Push(chunks, content, index) ELSE chunks
                  /\ index' = IF Len(chunks') > Len(chunks) THEN index + 1 ELSE index
                  /\ current_lines' = Append(kept, line)
                  /\ current_size' = (IF flush THEN SizeOf(kept) ELSE current_size)
                                        + line_words
                  /\ lines' = Tail(lines)
                  /\ cpc' = "code_loop"
                  /\ dropped' = IF Len(chunks') > Len(chunks) THEN FALSE
                                ELSE IF flush THEN TRUE ELSE dropped
          ELSE /\ chunks' = IF current_lines # <<>> THEN Push(chunks, content, index)
                            ELSE chunks
               /\ cpc' = "done"
               /\ UNCHANGED <<index, current_lines, current_size, lines, dropped>>
    /\ chunk_lines' = IF Len(chunks') > Len(chunks) THEN Append(chunk_lines, current_lines)
                      ELSE chunk_lines
    /\ after_drop' = IF Len(chunks') > Len(chunks) /\ dropped
                     THEN after_drop \cup {Len(chunks')} ELSE after_drop
    /\ UNCHANGED <<text, chunk_size, chunk_overlap, words, start, paragraphs, current_chunk>>
    /\ UNCHANGED <<runVars, schedVars, batchVars, otherVars>>

CodeNext == CodeCall \/ CodeLoop

SpecCode == CodeInit /\ [][CodeNext]_vars

\* All three modes on the same inputs.
ModesInit ==
    /\ text \in Texts(LineKinds, MaxModeLines)
    /\ chunk_size \in 0..MaxParam
    /\ cpc \in {"call", "para_call", "code_call"}
    /\ chunk_overlap \in (IF cpc = "call" THEN 0..MaxParam ELSE {0})
    /\ ModeLocals
    /\ RunParked
    /\ SchedParked
    /\ BatchParked
    /\ OtherParked

ModesNext == ChunkNext \/ ParaNext \/ CodeNext

SpecModes == ModesInit /\ [][ModesNext]_vars

----------------------------------------------------------------------------
\* Paragraph mode and line mode: properties.

\* The tokens of all the chunks, in order
RECURSIVE AllTokens(_)
AllTokens(cs) == IF cs = <<>> THEN <<>> ELSE Tokens(Head(cs)) \o AllTokens(Tail(cs))

\* The number of tokens of the first i pieces
RECURSIVE WordsUpTo(_, _)
WordsUpTo(ps, i) == IF i = 0 THEN 0 ELSE WordsUpTo(ps, i - 1) + WordCount(ps[i])

\* p occurs in c
IsInfix(p, c) == \E i \in 0..(Len(c) - Len(p)) : SubSeq(c, i + 1, i + Len(p)) = p

\* C11: chunk_by_paragraphs never splits a paragraph.  The tokens of the chunks
\* in order are the tokens of the text (each paragraph is in exactly one chunk,
\* in input order), every chunk ends where a paragraph ends, every paragraph
\* with a token occurs whole in a chunk, and a paragraph with more than
\* chunk_size tokens is a chunk on its own.
C11_ParagraphsWhole ==
    cpc = "done" =>
      LET paras == split_paragraphs(text)
      IN /\ AllTokens(chunks) = split_whitespace(text)
         /\ \A k \in 0..Len(chunks) :
               \E i \in 0..Len(paras) :
                  TotalTokens(SubSeq(chunks, 1, k)) = WordsUpTo(paras, i)
         /\ \A i \in DOMAIN paras :
               /\ WordCount(paras[i]) > 0 =>
                     \E k \in DOMAIN chunks : IsInfix(trim(paras[i]), chunks[k].content)
               /\ WordCount(paras[i]) > chunk_size =>
                     \E k \in DOMAIN chunks : chunks[k].content = trim(paras[i])

C11_Witness ==
    /\ cpc = "done"
    /\ current_chunk # <<>>
    /\ Len(chunks) >= 2
    /\ chunk_size >= 1
    /\ \E i \in DOMAIN split_paragraphs(text) :
          /\ WordCount(split_paragraphs(text)[i]) > chunk_size
          /\ \E k \in DOMAIN chunks : chunks[k].content = trim(split_paragraphs(text)[i])

\* Chunk k + 1 of chunk_code begins with the last min(5, n) lines of chunk k,
\* which has n lines, and goes on with at least one more line.
BeginsWithSeed(k) ==
    LET prev == chunk_lines[k]
        next == chunk_lines[k + 1]
        n == Min(OverlapLines, Len(prev))
    IN /\ Len(next) > n
       /\ SubSeq(next, 1, n) = LastOf(prev, n)

\* The chunks of chunk_code are the recorded lines, joined
LinesAreChunks ==
    /\ Len(chunk_lines) = Len(chunks)
    /\ \A k \in DOMAIN chunks : chunks[k].content = join(chunk_lines[k], <<"\n">>)

\* C12, as stated: every chunk that follows a chunk emitted by an overflow
\* flush begins with the last min(5, n) lines of that chunk, then has at
\* least one new line.
C12_NextBeginsWithSeed ==
    LinesAreChunks /\ \A k \in 1..(Len(chunk_lines) - 1) : BeginsWithSeed(k)

\* C12, amended: every chunk that follows a chunk emitted by an overflow flush
\* begins with the last min(5, n) lines of that chunk, then has at least one
\* new line, unless a whitespace-only buffer was flushed and dropped between
\* the two chunks (the seed is then taken from the dropped buffer).
C12_SeedUnlessDropped ==
    /\ LinesAreChunks
    /\ \A k \in 1..(Len(chunk_lines) - 1) :
          (k + 1) \notin after_drop => BeginsWithSeed(k)

C12_Witness ==
    /\ cpc = "done"
    /\ \E k \in 1..(Len(chunk_lines) - 1) :
          /\ Len(chunk_lines[k]) > OverlapLines
          /\ (k + 1) \notin after_drop
          /\ BeginsWithSeed(k)

\* C13: in every mode the chunks pushed so far carry the indices 0, 1, ... in
\* order, none has empty or whitespace-only content, and an empty or
\* whitespace-only text gives no chunk (and the call returns).
C13_IndicesAndContent ==
    /\ \A k \in DOMAIN chunks :
          /\ chunks[k].index = k - 1
          /\ ~TrimIsEmpty(chunks[k].content)
    /\ TrimIsEmpty(text) => (chunks = <<>> /\ cpc # "loop")

C13_Witness ==
    /\ cpc = "done"
    /\ Len(chunks) >= 2
    /\ after_drop # {}
    /\ chunks[Len(chunks)].index = Len(chunks) - 1

----------------------------------------------------------------------------
\* Index commands and the update run.

\* Bounds.
MaxCommit == 2
MaxClock == 3

\* main.rs:204 / server/mod.rs:305: if batch.len() >= 100
BatchLimit == 100

GitSrcs == {"github:a/x", "github:b/y"}
LocalSrcs == {"local:/d"}
Srcs == GitSrcs \cup LocalSrcs

Hours == 0..23
\* (download_window_start, download_window_end) of the configuration
Windows == {<<22, 8>>, <<9, 17>>}

\* What load_repo / load_directory return for the tree of s at commit v: the
\* chunk count of each eligible non-empty file, in walk order.  No path, no file.
Docs(s, v) ==
    CASE v = 0 -> <<>>
      [] s = "github:a/x" /\ v = 1 -> <<3>>
      [] s = "github:a/x" /\ v = 2 -> <<60, 90>>
      [] s = "github:a/x" -> <<200>>
      [] s = "github:b/y" /\ v = 1 -> <<2>>
      [] s = "github:b/y" /\ v = 2 -> <<>>
      [] s = "github:b/y" -> <<101>>
      [] OTHER -> <<1>>

RECURSIVE SumSeq(_)
SumSeq(q) == IF q = <<>> THEN 0 ELSE Head(q) + SumSeq(Tail(q))

\* The number of chunks of the flattened document set
Total(s, v) == SumSeq(Docs(s, v))

\* ---- scheduler/mod.rs: SourceMetadata, MetadataStore ----
EmptyStore == [k \in {} |-> 0]

\* MetadataStore::get is Some
Tracked(store, s) == s \in DOMAIN store

\* MetadataStore::upsert
upsert(store, m) ==
    [k \in DOMAIN store \cup {m.source} |-> IF k = m.source THEN m ELSE store[k]]

\* Scheduler::create_github_metadata (0 stands for None)
create_github_metadata(s, head, t) ==
    [source |-> s, source_type |-> "github", last_commit_hash |-> head,
     last_check |-> t, last_update |-> t, owner |-> TRUE, local_path |-> TRUE]

\* Scheduler::create_local_metadata
create_local_metadata(s, t) ==
    [source |-> s, source_type |-> "local", last_commit_hash |-> 0,
     last_check |-> t, last_update |-> t, owner |-> FALSE, local_path |-> TRUE]

\* Scheduler::update_check_time
update_check_time_touching_update(m, t) == [m EXCEPT !.last_check = t, !.last_update = t]
update_check_time_dropping_hash(m, t) == [m EXCEPT !.last_check = t, !.last_commit_hash = 0]
update_check_time(m, t) == [m EXCEPT !.last_check = t]

\* Scheduler::update_after_refresh, once the commit hash is resolved
update_after_refresh_keeping_hash(m, head, t) ==
    [m EXCEPT !.last_check = t, !.last_update = t]
update_after_refresh(m, head, t) ==
    [m EXCEPT !.last_commit_hash = head, !.last_check = t, !.last_update = t]

\* Scheduler::has_updates, once the commit hash is resolved
has_updates_always(m, head) == TRUE
has_updates(m, head) ==
    IF m.last_commit_hash # 0 THEN m.last_commit_hash # head ELSE TRUE

\* Scheduler::is_in_download_window
is_in_download_window_inclusive(window_start, window_end, hour) ==
    IF window_start > window_end
    THEN hour >= window_start \/ hour <= window_end
    ELSE hour >= window_start /\ hour <= window_end
is_in_download_window(window_start, window_end, hour) ==
    IF window_start > window_end
    THEN hour >= window_start \/ hour < window_end
    ELSE hour >= window_start /\ hour < window_end

\* ---- storage/mod.rs: VectorStore ----
\* A batch stands for the rows of chunks lo..hi of the load of commit ver.
Batch(s, v, lo, hi) == [source |-> s, ver |-> v, lo |-> lo, hi |-> hi]

\* VectorStore::insert
insert(tbl, b) == IF b.hi < b.lo THEN tbl ELSE tbl (+) SetToBag({b})

\* VectorStore::delete_by_source: table.delete("source = '<s>'")
delete_all(tbl, s) == EmptyBag
delete_by_source(tbl, s) == [b \in {x \in DOMAIN tbl : x.source # s} |-> tbl[b]]

\* VectorStore::list_sources
list_sources(tbl) == {b.source : b \in DOMAIN tbl}

\* main.rs:397: if !in_window && !force
GatedIgnoringForce(inw, f) == ~inw
Gated(inw, f) == ~inw /\ ~f

\* index_documents_simple: the size of the next insert call
NextBatchSize(s, v, done) == Min(BatchLimit, Total(s, v) - done)

\* Vec::push of (source, value) on `updated` / `skipped`, read as a map
Put(f, k, v) == [x \in DOMAIN f \cup {k} |-> IF x = k THEN v ELSE f[x]]

Op(kind, s, n) == [op |-> kind, source |-> s, n |-> n]

\* The log of the calls made for each source
NoOps == [s \in Srcs |-> <<>>]
Log(log, e) == [log EXCEPT ![e.source] = Append(@, e)]

\* The sources the running update run refreshed or found up to date
Synced == DOMAIN updated \cup {s \in DOMAIN skipped : skipped[s] = "Already up to date"}

\* The batches a complete indexing pass of s at commit v inserts
RECURSIVE IndexedRows(_, _, _)
IndexedRows(s, v, done) ==
    IF NextBatchSize(s, v, done) <= 0 THEN {}
    ELSE {Batch(s, v, done + 1, done + NextBatchSize(s, v, done))}
           \cup IndexedRows(s, v, done + NextBatchSize(s, v, done))

InitTable(I) == SetToBag(UNION {IndexedRows(s, 1, 0) : s \in I})

\* A fresh installation, or one in which the sources (I) were indexed at
\* commit 1; the remote may have moved on since, and the operator may have
\* removed the local clone of some of them (R).
RunInit ==
    /\ \E I \in {{}, Srcs}, R \in SUBSET GitSrcs :
          /\ R \subseteq I
          /\ table = InitTable(I)
          /\ disk = [s \in I |-> IF s \in GitSrcs THEN create_github_metadata(s, 1, 1)
                                 ELSE create_local_metadata(s, 1)]
          /\ tree = [s \in Srcs |-> IF (s \in I \/ s \in LocalSrcs) /\ s \notin R
                                    THEN 1 ELSE 0]
          /\ last_load = [s \in Srcs |-> IF s \in I THEN 1 ELSE 0]
    /\ upstream \in [GitSrcs -> 1..MaxCommit]
    /\ now = 1
    /\ pc = "idle" /\ cmd = "none" /\ entry = "cli" /\ force = FALSE /\ in_window = FALSE
    /\ mem = EmptyStore /\ listed = {} /\ todo = {} /\ cur = "none" /\ docs_ver = 0
    /\ total_indexed = 0 /\ updated = EmptyStore /\ skipped = EmptyStore
    /\ ops = NoOps /\ emptied = {} /\ prev_synced = {}
    /\ any_failed = FALSE /\ run_failed = FALSE

\* The command returns: its locals are dropped.
Exit(how, kind) ==
    /\ pc' = "idle"
    /\ cmd' = "none"
    /\ entry' = "cli"
    /\ force' = FALSE
    /\ in_window' = FALSE
    /\ mem' = EmptyStore
    /\ listed' = {}
    /\ todo' = {}
    /\ cur' = "none"
    /\ docs_ver' = 0
    /\ total_indexed' = 0
    /\ updated' = EmptyStore
    /\ skipped' = EmptyStore
    /\ ops' = NoOps
    /\ run_failed' = FALSE
    /\ prev_synced' = IF cmd = "run" /\ how # "gated" /\ kind # "persistence"
                      THEN Synced ELSE IF how = "gated" THEN prev_synced ELSE {}

\* A `?` that returns the error from the command; the in-memory metadata
\* store is dropped unsaved.
Abort(kind) ==
    /\ Exit("err", kind)
    /\ any_failed' = TRUE
    /\ emptied' = IF cmd = "run" /\ pc = "index" /\ total_indexed = 0
                  THEN emptied \cup {cur} ELSE emptied

\* main.rs:389-395: update run is called; the clock is read for in_window
handle_update_run(f) ==
    /\ pc = "idle"
    /\ now < MaxClock
    /\ in_window' \in {is_in_download_window(w[1], w[2], hour) : w \in Windows, hour \in Hours}
    /\ force' = f
    /\ cmd' = "run"
    /\ now' = now + 1
    /\ pc' = "gate"
    /\ UNCHANGED <<upstream, tree, table, disk, entry, mem, listed, todo, cur, docs_ver,
                   total_indexed, updated, skipped, histVars>>
    /\ UNCHANGED <<chunkVars, schedVars, batchVars, otherVars>>

\* main.rs:397-423: the window gate, then load_metadata and list_sources
run_gate ==
    /\ pc = "gate"
    /\ IF Gated(in_window, force)
       THEN /\ Exit("gated", "none")
            /\ UNCHANGED <<emptied, any_failed>>
       ELSE /\ pc' = "loop"
            /\ mem' = disk
            /\ listed' = list_sources(table)
            /\ todo' = list_sources(table)
            /\ updated' = EmptyStore
            /\ skipped' = EmptyStore
            /\ force' = FALSE
            /\ in_window' = FALSE
            /\ UNCHANGED <<cmd, entry, cur, docs_ver, total_indexed, histVars>>
    /\ UNCHANGED <<upstream, tree, table, disk, now, last_load>>
    /\ UNCHANGED <<chunkVars, schedVars, batchVars, otherVars>>

\* main.rs:425-483: the body of the for loop for one source, up to the point
\* where it is skipped, checked, or deleted and reloaded (lines 444-446).
run_next_source(s) ==
    /\ pc = "loop"
    /\ s \in todo
    /\ \E fetch_ok, hash_ok, delete_ok \in BOOLEAN :
         LET tracked == Tracked(mem, s)
             meta == mem[s]
             is_git == tracked /\ meta.local_path /\ meta.owner
             exists == tree[s] # 0
             fetched == is_git /\ exists /\ fetch_ok
             head == upstream[s]
             hashed == fetched /\ (meta.last_commit_hash = 0 \/ hash_ok)
             changed == hashed /\ has_updates(meta, head)
             reason == IF ~tracked THEN "Not in metadata"
                       ELSE IF ~is_git THEN "Not a GitHub source"
                       ELSE IF ~exists THEN "Local path not found"
                       ELSE IF ~fetched THEN "Failed to fetch"
                       ELSE IF ~hashed THEN "Error"
                       ELSE "Already up to date"
             failed == reason \in {"Failed to fetch", "Error"}
         IN /\ tree' = IF fetched THEN [tree EXCEPT ![s] = head] ELSE tree
            /\ IF changed /\ ~delete_ok
               THEN /\ Abort("delete")
                    /\ UNCHANGED <<table, last_load>>
               ELSE IF changed
               THEN /\ table' = delete_by_source(table, s)
                    /\ ops' = Log(ops, Op("delete", s, 0))
                    /\ cur' = s
                    /\ docs_ver' = head
                    /\ last_load' = [last_load EXCEPT ![s] = head]
                    /\ total_indexed' = 0
                    /\ pc' = "index"
                    /\ todo' = todo \ {s}
                    /\ UNCHANGED <<cmd, entry, force, in_window, mem, listed, updated,
                                   skipped, emptied, prev_synced, any_failed, run_failed>>
               ELSE /\ skipped' = Put(skipped, s, reason)
                    /\ todo' = todo \ {s}
                    /\ mem' = IF hashed THEN upsert(mem, update_check_time(meta, now))
                              ELSE mem
                    /\ ops' = IF hashed THEN Log(ops, Op("check", s, 0)) ELSE ops
                    /\ run_failed' = (run_failed \/ failed)
                    /\ any_failed' = (any_failed \/ failed)
                    /\ UNCHANGED <<table, cmd, entry, force, in_window, listed, cur,
                                   docs_ver, total_indexed, updated, pc, last_load,
                                   emptied, prev_synced>>
    /\ UNCHANGED <<upstream, disk, now>>
    /\ UNCHANGED <<chunkVars, schedVars, batchVars, otherVars>>

\* main.rs:177-218 / server/mod.rs:278-317: the chunks up to the next insert
\* call are embedded and the batch is inserted; an embedding or insert error
\* returns from the command.
index_documents_simple ==
    /\ pc = "index"
    /\ NextBatchSize(cur, docs_ver, total_indexed) > 0
    /\ \E r \in {"ok", "embed", "insert"} :
         IF r = "ok"
         THEN /\ table' = insert(table, Batch(cur, docs_ver, total_indexed + 1,
                        total_indexed + NextBatchSize(cur, docs_ver, total_indexed)))
              /\ total_indexed' =
                    total_indexed + NextBatchSize(cur, docs_ver, total_indexed)
              /\ ops' = Log(ops, Op("insert", cur,
                                       NextBatchSize(cur, docs_ver, total_indexed)))
              /\ emptied' = emptied \ {cur}
              /\ UNCHANGED <<pc, cmd, entry, force, in_window, mem, listed, todo, cur,
                             docs_ver, updated, skipped, prev_synced, any_failed,
                             run_failed>>
         ELSE /\ Abort(r)
              /\ UNCHANGED table
    /\ UNCHANGED <<upstream, tree, disk, now, last_load>>
    /\ UNCHANGED <<chunkVars, schedVars, batchVars, otherVars>>

\* main.rs:455-459: update_after_refresh, upsert, updated.push
run_refreshed ==
    /\ pc = "index"
    /\ cmd = "run"
    /\ NextBatchSize(cur, docs_ver, total_indexed) = 0
    /\ \E hash_ok \in BOOLEAN :
         IF hash_ok
         THEN /\ mem' = upsert(mem, update_after_refresh(mem[cur], tree[cur], now))
              /\ updated' = Put(updated, cur, total_indexed)
              /\ ops' = Log(ops, Op("refresh", cur, tree[cur]))
              /\ pc' = "loop"
              /\ UNCHANGED <<cmd, entry, force, in_window, listed, todo, cur, docs_ver,
                             total_indexed, skipped, emptied, prev_synced, any_failed,
                             run_failed>>
         ELSE Abort("hash")
    /\ UNCHANGED <<upstream, tree, table, disk, now, last_load>>
    /\ UNCHANGED <<chunkVars, schedVars, batchVars, otherVars>>

\* main.rs:485: scheduler.save_metadata(&metadata_store)?
run_save ==
    /\ pc = "loop"
    /\ todo = {}
    /\ \E save_ok \in BOOLEAN :
         IF save_ok
         THEN /\ disk' = mem
              /\ Exit("ok", "none")
              /\ UNCHANGED <<emptied, any_failed>>
         ELSE /\ Abort("persistence")
              /\ UNCHANGED disk
    /\ UNCHANGED <<upstream, tree, table, now, last_load>>
    /\ UNCHANGED <<chunkVars, schedVars, batchVars, otherVars>>

\* main.rs:66-131 (index github, index local) and server/mod.rs:124-276
\* (add_github_source, add_local_source), up to the call that indexes.
handle_index(s, e) ==
    /\ pc = "idle"
    /\ now < MaxClock
    /\ now' = now + 1
    /\ prev_synced' = {}
    /\ \E fetch_ok \in BOOLEAN :
         LET failure == IF s \in GitSrcs /\ ~fetch_ok THEN "fetch"
                        ELSE IF s \in LocalSrcs /\ e = "http" /\ tree[s] = 0 THEN "path"
                        ELSE "none"
             loaded == IF s \in GitSrcs THEN upstream[s] ELSE tree[s]
         IN IF failure # "none"
            THEN /\ any_failed' = TRUE
                 /\ UNCHANGED <<pc, cmd, entry, mem, cur, docs_ver, tree, last_load>>
            ELSE /\ pc' = "index"
                 /\ cmd' = "index"
                 /\ entry' = e
                 /\ mem' = IF e = "cli" THEN disk ELSE EmptyStore
                 /\ cur' = s
                 /\ tree' = [tree EXCEPT ![s] = loaded]
                 /\ docs_ver' = loaded
                 /\ last_load' = [last_load EXCEPT ![s] = loaded]
                 /\ UNCHANGED any_failed
    /\ UNCHANGED <<upstream, table, disk, force, in_window, listed, todo, total_indexed,
                   updated, skipped, ops, emptied, run_failed>>
    /\ UNCHANGED <<chunkVars, schedVars, batchVars, otherVars>>

\* main.rs:108-110, 126-128 and server/mod.rs:197-206, 319-341: the metadata
\* record of the indexed source is created, upserted and saved.  The CLI
\* returns the errors; add_github_source only logs them; add_local_source
\* writes no metadata.
index_finish ==
    /\ pc = "index"
    /\ cmd = "index"
    /\ NextBatchSize(cur, docs_ver, total_indexed) = 0
    /\ \E hash_ok, save_ok \in BOOLEAN :
         LET is_git == cur \in GitSrcs
             meta == IF is_git THEN create_github_metadata(cur, tree[cur], now)
                     ELSE create_local_metadata(cur, now)
             failure == IF is_git /\ ~hash_ok THEN "hash"
                        ELSE IF ~save_ok THEN "persistence"
                        ELSE "none"
         IN IF entry = "cli" /\ failure # "none"
            THEN /\ Abort(failure)
                 /\ UNCHANGED disk
            ELSE /\ disk' = IF entry = "cli" THEN upsert(mem, meta)
                            ELSE IF is_git /\ failure = "none" THEN upsert(disk, meta)
                            ELSE disk
                 /\ Exit("ok", "none")
                 /\ any_failed' = (any_failed \/ (is_git /\ failure # "none"))
                 /\ UNCHANGED emptied
    /\ UNCHANGED <<upstream, tree, table, now, last_load>>
    /\ UNCHANGED <<chunkVars, schedVars, batchVars, otherVars>>

\* The remote branch gets a new commit.
UpstreamPush(s) ==
    /\ pc = "idle"
    /\ upstream[s] < MaxCommit
    /\ upstream' = [upstream EXCEPT ![s] = upstream[s] + 1]
    /\ prev_synced' = prev_synced \ {s}
    /\ UNCHANGED <<tree, table, disk, now, procVars, ops, last_load, emptied, any_failed,
                   run_failed>>
    /\ UNCHANGED <<chunkVars, schedVars, batchVars, otherVars>>

Init == RunInit /\ ChunkParked /\ SchedParked /\ BatchParked /\ OtherParked

Next ==
    \/ \E f \in BOOLEAN : handle_update_run(f)
    \/ run_gate
    \/ \E s \in Srcs : run_next_source(s)
    \/ index_documents_simple
    \/ run_refreshed
    \/ run_save
    \/ \E s \in Srcs, e \in {"cli", "http"} : handle_index(s, e)
    \/ index_finish
    \/ \E s \in GitSrcs : UpstreamPush(s)

Spec == Init /\ [][Next]_vars

----------------------------------------------------------------------------
\* Properties of the update run and of the index commands.

\* The rows the table holds for source s
SourceRows(tbl, s) == [b \in {x \in DOMAIN tbl : x.source = s} |-> tbl[b]]

\* The table holds for s the chunks of its load at commit v, each once
ContentIs(tbl, s, v) == SourceRows(tbl, s) = SetToBag(IndexedRows(s, v, 0))

\* The storage calls (delete, insert) among the calls logged for s
StorageOps(s) == {i \in DOMAIN ops[s] : ops[s][i].op \in {"delete", "insert"}}

RECURSIVE InsertedFrom(_, _)
InsertedFrom(q, i) ==
    IF i > Len(q) THEN 0
    ELSE (IF q[i].op = "insert" THEN q[i].n ELSE 0) + InsertedFrom(q, i + 1)

\* The documents of all the insert calls of the log q
Inserted(q) == InsertedFrom(q, 1)

\* The update run is between list_sources and its return
InRun == cmd = "run" /\ pc \in {"loop", "index"}

\* The calls of a completed refresh of s: one delete first, recordRefresh with
\* the new HEAD last, non-empty inserts (at least min_inserts of them) in
\* between that total the freshly load_results document set.
RefreshOrder(s, min_inserts) ==
    LET q == ops[s]
        n == Len(q)
    IN /\ n >= 2 + min_inserts
       /\ q[1].op = "delete"
       /\ \A i \in 2..(n - 1) : q[i].op = "insert" /\ q[i].n >= 1
       /\ Inserted(q) = Total(s, last_load[s])
       /\ updated[s] = Total(s, last_load[s])
       /\ q[n] = Op("refresh", s, tree[s])
       /\ last_load[s] = tree[s]
       /\ disk[s].last_commit_hash # tree[s]
       /\ mem[s].last_commit_hash = tree[s]

\* C1, as stated: a changed source that the run refreshed without a failure
\* saw deleteBySource once, then ONE OR MORE inserts totalling the freshly
\* load_results document set, then recordRefresh with the new HEAD.
C1_AtLeastOneInsert == InRun => \A s \in DOMAIN updated : RefreshOrder(s, 1)

\* C1, amended: a changed source that the run refreshed without a failure saw
\* deleteBySource once, then the inserts (none when the freshly load_results
\* document set is empty, otherwise one or more, none of them empty) totalling
\* the freshly load_results document set, then recordRefresh with the new HEAD.
C1_RefreshOrder ==
    InRun => \A s \in DOMAIN updated :
                /\ RefreshOrder(s, 0)
                /\ (Total(s, last_load[s]) > 0 => Len(ops[s]) >= 3)
                /\ (Total(s, last_load[s]) = 0 => Len(ops[s]) = 2)

C1_Witness ==
    /\ InRun
    /\ \E s \in DOMAIN updated : Len(ops[s]) = 4 /\ RefreshOrder(s, 1)
    /\ \E s \in DOMAIN updated : Len(ops[s]) = 2 /\ RefreshOrder(s, 0)

\* C2: a synced source whose stored fingerprint equals HEAD only has its check
\* recorded: no delete and no insert is called for it, last_check becomes the
\* time of the run, the fingerprint and last_update stay as stored; and a
\* source is deleted and reloaded only when its fingerprint differs from HEAD.
C2_CheckOnly ==
    InRun =>
      /\ \A s \in DOMAIN skipped :
            skipped[s] = "Already up to date" =>
               /\ disk[s].last_commit_hash = tree[s]
               /\ ops[s] = <<Op("check", s, 0)>>
               /\ StorageOps(s) = {}
               /\ mem[s].last_check = now
               /\ mem[s].last_commit_hash = disk[s].last_commit_hash
               /\ mem[s].last_update = disk[s].last_update
               /\ mem[s] = [disk[s] EXCEPT !.last_check = now]
      /\ \A s \in Srcs :
            StorageOps(s) # {} => disk[s].last_commit_hash # tree[s]

C2_Witness ==
    /\ InRun
    /\ \E s \in DOMAIN skipped :
          /\ skipped[s] = "Already up to date"
          /\ disk[s].last_check < now
          /\ mem[s].last_check = now
          /\ ops[s] = <<Op("check", s, 0)>>
    /\ updated # EmptyStore

\* C3: a run that follows a run with no upstream change in between calls
\* neither delete nor insert for the sources the first run had refreshed or
\* found up to date.
C3_Idempotent == InRun => \A s \in prev_synced : StorageOps(s) = {}

\* C4: when a run in which no operation failed has gone through its sources,
\* every source that an earlier failed run had deleted and not re-inserted
\* holds the chunks of its fresh load again.
C4_Recovered ==
    (InRun /\ pc = "loop" /\ todo = {} /\ ~run_failed) =>
        \A s \in emptied : ContentIs(table, s, upstream[s])

\* C5: an update run that has entered its loop returns only after the loop
\* has gone through every source, at the save of the metadata: no error of a
\* source ends the run.
C5_OnlySaveAborts ==
    [][(InRun /\ pc' = "idle") => (pc = "loop" /\ todo = {})]_vars

\* C6: with force = false outside the window the run returns and leaves the
\* clones, the table and the metadata (in memory and on disk) as they were;
\* with force = true or inside the window it goes on to the loop over every
\* indexed source with the metadata load_results from disk.
C6_WindowGate ==
    [][pc = "gate" =>
         IF ~force /\ ~in_window
         THEN /\ pc' = "idle"
              /\ UNCHANGED <<upstream, tree, table, disk>>
              /\ mem' = EmptyStore /\ ops' = NoOps /\ todo' = {}
         ELSE /\ pc' = "loop"
              /\ todo' = list_sources(table)
              /\ listed' = list_sources(table)
              /\ mem' = disk
              /\ UNCHANGED <<upstream, tree, table, disk>>]_vars

C6_Witness ==
    /\ pc = "gate"
    /\ force /\ ~in_window
    /\ Cardinality(list_sources(table)) >= 2

\* C7: when no command runs and no call ever failed, the table holds for
\* every source exactly the chunks of its most recent load, each once.
C7_ContentIsLastLoad ==
    (pc = "idle" /\ ~any_failed) => \A s \in Srcs : ContentIs(table, s, last_load[s])

----------------------------------------------------------------------------
\* The functions of the scheduler, one call at a time.

\* Bounds: times in half hours, the check interval in hours.
MaxHalfHours == 6
MaxInterval == 2

\* The times of the clock and of the stored timestamps, in half hours
Stamps == 0..MaxHalfHours

\* u8 arithmetic; Overflow is the outcome of a result outside 0..255 (a panic
\* or a wrapped value, as the build has it)
Overflow == 0 - 1
U8Sub(a, b) == IF a = Overflow \/ b = Overflow \/ a < b THEN Overflow ELSE a - b
U8Add(a, b) == IF a = Overflow \/ b = Overflow \/ a + b > 255 THEN Overflow ELSE a + b

\* Scheduler::time_until_window: hours_until_start (lines 109-123)
hours_until_start_past_midnight(window_start, window_end, current_hour) ==
    IF is_in_download_window(window_start, window_end, current_hour) THEN 0
    ELSE U8Add(U8Sub(24, current_hour), window_start)
hours_until_start(window_start, window_end, current_hour) ==
    IF window_start > window_end
    THEN IF current_hour >= window_start \/ current_hour < window_end THEN 0
         ELSE IF current_hour < window_start THEN U8Sub(window_start, current_hour)
         ELSE U8Add(U8Sub(24, current_hour), window_start)
    ELSE IF current_hour >= window_start /\ current_hour < window_end THEN 0
         ELSE IF current_hour < window_start THEN U8Sub(window_start, current_hour)
         ELSE U8Add(U8Sub(24, current_hour), window_start)

\* Scheduler::time_until_window: Duration::from_secs((hours_until_start * 3600) as u64)
time_until_window(window_start, window_end, current_hour) ==
    IF hours_until_start(window_start, window_end, current_hour) = Overflow THEN Overflow
    ELSE hours_until_start(window_start, window_end, current_hour) * 3600

\* Duration::num_hours of a duration of d half hours: whole hours, towards zero
num_hours(d) == IF d >= 0 THEN d \div 2 ELSE 0 - ((0 - d) \div 2)

\* Option<String> last_check: None, Some(text that parses as a time), Some(other text)
NoStamp == [some |-> FALSE, parses |-> FALSE, t |-> 0]
BadStamp == [some |-> TRUE, parses |-> FALSE, t |-> 0]
SomeStamp(t) == [some |-> TRUE, parses |-> TRUE, t |-> t]

\* Scheduler::needs_check
needs_check_strict(last_check, clock, check_interval_hours) ==
    IF last_check.some /\ last_check.parses
    THEN num_hours(clock - last_check.t) > check_interval_hours
    ELSE TRUE
needs_check(last_check, clock, check_interval_hours) ==
    IF last_check.some /\ last_check.parses
    THEN num_hours(clock - last_check.t) >= check_interval_hours
    ELSE TRUE

\* Scheduler::has_updates as a Result: get_current_commit_hash is called only
\* when a hash is stored, and its error is returned (head = 0: HEAD unreadable)
has_updates_result(m, head) ==
    IF m.last_commit_hash # 0 /\ head = 0 THEN [ok |-> FALSE, val |-> FALSE]
    ELSE [ok |-> TRUE, val |-> has_updates(m, head)]

\* Scheduler::update_after_refresh as a Result: get_current_commit_hash comes
\* first and its error is returned (head = 0: HEAD unreadable)
update_after_refresh_result_late_error(m, head, t) ==
    IF head = 0 THEN [ok |-> FALSE, meta |-> [m EXCEPT !.last_check = t]]
    ELSE [ok |-> TRUE, meta |-> update_after_refresh(m, head, t)]
update_after_refresh_result(m, head, t) ==
    IF head = 0 THEN [ok |-> FALSE, meta |-> m]
    ELSE [ok |-> TRUE, meta |-> update_after_refresh(m, head, t)]

\* A SourceMetadata with its repo and branch fields
WithRepo(m, is_git) ==
    [f \in DOMAIN m \cup {"repo", "branch"} |->
        IF f \in {"repo", "branch"} THEN is_git ELSE m[f]]

\* The records the functions that take a &mut SourceMetadata are called on
SchedMetas ==
    {WithRepo([create_github_metadata("github:a/x", h, t) EXCEPT !.last_update = u], TRUE) :
        h \in 0..MaxCommit, t \in Stamps, u \in Stamps}
    \cup {WithRepo([create_local_metadata("local:/d", t) EXCEPT !.last_update = u], FALSE) :
        t \in Stamps, u \in Stamps}

SchedInit ==
    /\ \/ /\ fn \in {"is_in_download_window", "time_until_window"}
          /\ args \in [window_start : Hours, window_end : Hours, hour : Hours]
       \/ /\ fn = "needs_check"
          /\ args \in [last_check : {NoStamp, BadStamp} \cup {SomeStamp(t) : t \in Stamps},
                       clock : Stamps, check_interval_hours : 0..MaxInterval]
       \/ /\ fn = "has_updates"
          /\ args \in [last_commit_hash : 0..MaxCommit, head : 0..MaxCommit]
       \/ /\ fn = "update_check_time"
          /\ args \in [meta : SchedMetas, clock : Stamps]
       \/ /\ fn = "update_after_refresh"
          /\ args \in [meta : SchedMetas, head : 0..MaxCommit, clock : Stamps]
    /\ ret = <<>>
    /\ ChunkParked
    /\ RunParked
    /\ BatchParked
    /\ OtherParked

call_is_in_download_window ==
    /\ fn = "is_in_download_window" /\ ret = <<>>
    /\ ret' = <<is_in_download_window(args.window_start, args.window_end, args.hour)>>
    /\ UNCHANGED <<fn, args, chunkVars, runVars, batchVars, otherVars>>

call_time_until_window ==
    /\ fn = "time_until_window" /\ ret = <<>>
    /\ ret' = <<time_until_window(args.window_start, args.window_end, args.hour)>>
    /\ UNCHANGED <<fn, args, chunkVars, runVars, batchVars, otherVars>>

call_needs_check ==
    /\ fn = "needs_check" /\ ret = <<>>
    /\ ret' = <<needs_check(args.last_check, args.clock, args.check_interval_hours)>>
    /\ UNCHANGED <<fn, args, chunkVars, runVars, batchVars, otherVars>>

call_has_updates ==
    /\ fn = "has_updates" /\ ret = <<>>
    /\ ret' = <<has_updates_result(args, args.head)>>
    /\ UNCHANGED <<fn, args, chunkVars, runVars, batchVars, otherVars>>

call_update_check_time ==
    /\ fn = "update_check_time" /\ ret = <<>>
    /\ ret' = <<update_check_time(args.meta, args.clock)>>
    /\ UNCHANGED <<fn, args, chunkVars, runVars, batchVars, otherVars>>

call_update_after_refresh ==
    /\ fn = "update_after_refresh" /\ ret = <<>>
    /\ ret' = <<update_after_refresh_result(args.meta, args.head, args.clock)>>
    /\ UNCHANGED <<fn, args, chunkVars, runVars, batchVars, otherVars>>

SchedNext ==
    \/ call_is_in_download_window
    \/ call_time_until_window
    \/ call_needs_check
    \/ call_has_updates
    \/ call_update_check_time
    \/ call_update_after_refresh

SpecSched == SchedInit /\ [][SchedNext]_vars

\* The call of f has returned
Returned(f) == fn = f /\ ret # <<>>

\* The window of the policy: [start, end), or [start, 24) and [0, end) when it
\* wraps midnight
Window(window_start, window_end) ==
    IF window_start <= window_end THEN window_start..(window_end - 1)
    ELSE (window_start..23) \cup (0..(window_end - 1))

\* C14: the result of is_in_download_window is true exactly when the hour is
\* in [start, end) for start <= end, and in [start, 24) or [0, end) for
\* start > end.
C14_InWindow ==
    Returned("is_in_download_window") =>
        (ret[1] <=> args.hour \in Window(args.window_start, args.window_end))

\* The boundary hours of (9, 17) and (22, 8): start, start - 1, end, end - 1
C14_Witness ==
    /\ Returned("is_in_download_window")
    /\ \/ args.window_start = 9 /\ args.window_end = 17 /\ args.hour = 17 /\ ret[1] = FALSE
       \/ args.window_start = 22 /\ args.window_end = 8 /\ args.hour = 7 /\ ret[1] = TRUE

\* C15: the result of time_until_window is 0 exactly when the hour is in the
\* window; otherwise it is 3600 times the least k in 1..24 with
\* (hour + k) mod 24 = window_start; no step of the computation leaves u8.
C15_TimeUntil ==
    Returned("time_until_window") =>
        /\ ret[1] # Overflow
        /\ ret[1] = 0 <=> args.hour \in Window(args.window_start, args.window_end)
        /\ args.hour \notin Window(args.window_start, args.window_end) =>
              \E k \in 1..24 :
                 /\ ret[1] = 3600 * k
                 /\ (args.hour + k) % 24 = args.window_start
                 /\ \A j \in 1..(k - 1) : (args.hour + j) % 24 # args.window_start

C15_Witness ==
    /\ Returned("time_until_window")
    /\ args.window_start = 9 /\ args.window_end = 17 /\ args.hour = 20
    /\ ret[1] = 13 * 3600

\* C16: needs_check is true when last_check is absent; with a last_check it
\* is true exactly when the whole hours elapsed since then are at least
\* check_interval_hours.
C16_NeedsCheck ==
    Returned("needs_check") =>
        /\ ~args.last_check.some => ret[1] = TRUE
        /\ (args.last_check.some /\ args.last_check.parses) =>
              LET elapsed == args.clock - args.last_check.t
              IN ret[1] <=> \/ elapsed >= 2 * args.check_interval_hours
                            \/ args.check_interval_hours = 0 /\ elapsed > 0 - 2

\* At the boundary hour and half an hour before it
C16_Witness ==
    /\ Returned("needs_check")
    /\ args.last_check.some /\ args.last_check.parses
    /\ args.check_interval_hours = 2
    /\ \/ args.clock - args.last_check.t = 4 /\ ret[1] = TRUE
       \/ args.clock - args.last_check.t = 3 /\ ret[1] = FALSE

\* C17: has_updates is true when no hash is stored, true when the stored hash
\* differs from HEAD of the clone, false when they are equal.
C17_HasChanged ==
    Returned("has_updates") =>
        /\ args.last_commit_hash = 0 => ret[1] = [ok |-> TRUE, val |-> TRUE]
        /\ (args.last_commit_hash # 0 /\ args.head # 0) =>
              ret[1] = [ok |-> TRUE, val |-> args.last_commit_hash # args.head]

C17_Witness ==
    /\ Returned("has_updates")
    /\ args.last_commit_hash = 2 /\ args.head = 2
    /\ ret[1] = [ok |-> TRUE, val |-> FALSE]

\* The fields of a SourceMetadata other than those of F are the same in m and n
SameBut(m, n, F) ==
    /\ DOMAIN m = DOMAIN n
    /\ \A f \in DOMAIN m \ F : m[f] = n[f]

\* C24: update_check_time sets last_check to the current time and leaves every
\* other field of the record as it was.
C24_CheckTimeOnly ==
    Returned("update_check_time") =>
        /\ ret[1].last_check = args.clock
        /\ SameBut(ret[1], args.meta, {"last_check"})
        /\ DOMAIN ret[1] = {"source", "source_type", "last_commit_hash", "last_check",
                            "last_update", "owner", "repo", "branch", "local_path"}

C24_Witness ==
    /\ Returned("update_check_time")
    /\ args.meta.last_commit_hash = 2
    /\ args.meta.last_update = 1 /\ args.meta.last_check = 1 /\ args.clock = 3
    /\ ret[1].last_check = 3 /\ ret[1].last_update = 1

\* C25: update_after_refresh sets last_commit_hash to HEAD and last_check and
\* last_update to the one current time, leaving the other fields as they
\* were; when HEAD cannot be resolved it returns an error and the record is
\* as it was.
C25_Refresh ==
    Returned("update_after_refresh") =>
        IF args.head # 0
        THEN /\ ret[1].ok
             /\ ret[1].meta.last_commit_hash = args.head
             /\ ret[1].meta.last_check = args.clock
             /\ ret[1].meta.last_update = args.clock
             /\ SameBut(ret[1].meta, args.meta,
                        {"last_commit_hash", "last_check", "last_update"})
        ELSE /\ ~ret[1].ok
             /\ ret[1].meta = args.meta

C25_Witness ==
    /\ Returned("update_after_refresh")
    /\ \/ /\ args.head = 2 /\ args.meta.last_commit_hash = 1
          /\ args.meta.last_check = 2 /\ args.meta.last_update = 1 /\ args.clock = 3
          /\ ret[1].ok
       \/ /\ args.head = 0 /\ args.meta.last_check # args.clock /\ ~ret[1].ok

\* C28: waiting the duration that time_until_window returns leads into the
\* window: is_in_download_window is true at hour (hour + duration / 3600) mod 24.
C28_WaitLeadsIntoWindow ==
    Returned("time_until_window") =>
        /\ ret[1] # Overflow
        /\ is_in_download_window(args.window_start, args.window_end,
                                 (args.hour + ret[1] \div 3600) % 24)

----------------------------------------------------------------------------
\* index_documents_simple (main.rs:177-218) and index_documents
\* (server/mod.rs:278-317), chunk by chunk.

\* Bound: the number of documents of a call.
MaxDocs == 2

\* The numbers of chunks a document may have
DocSizes == {0, 1, BatchLimit - 1, BatchLimit, BatchLimit + 1}

\* main.rs:204: if batch.len() >= 100
BatchFullLate(b) == Len(b) > BatchLimit
BatchFull(b) == Len(b) >= BatchLimit

BatchInit ==
    /\ documents \in SeqsUpTo(DocSizes, MaxDocs)
    /\ doc_i = 1
    /\ chunk_i = 0
    /\ batch = <<>>
    /\ n_indexed = 0
    /\ inserted = <<>>
    /\ failed_call = <<>>
    /\ ipc = "loop"
    /\ ChunkParked
    /\ RunParked
    /\ SchedParked
    /\ OtherParked

\* main.rs:187-209: one iteration of the inner for loop: embed the chunk (`?`),
\* push it on the batch, count it, insert and clear the batch when it is full (`?`)
index_chunk ==
    /\ ipc = "loop"
    /\ doc_i <= Len(documents)
    /\ chunk_i < documents[doc_i]
    /\ \E embed_ok, insert_ok \in BOOLEAN :
         LET pushed == Append(batch, <<doc_i, chunk_i + 1>>)
         IN IF ~embed_ok
            THEN /\ ipc' = "err"
                 /\ failed_call' = <<"embed", doc_i>>
                 /\ UNCHANGED <<chunk_i, batch, n_indexed, inserted>>
            ELSE IF BatchFull(pushed) /\ ~insert_ok
            THEN /\ ipc' = "err"
                 /\ failed_call' = <<"insert", doc_i>>
                 /\ batch' = pushed
                 /\ n_indexed' = n_indexed + 1
                 /\ UNCHANGED <<chunk_i, inserted>>
            ELSE /\ batch' = IF BatchFull(pushed) THEN <<>> ELSE pushed
                 /\ inserted' = IF BatchFull(pushed) THEN Append(inserted, pushed)
                                ELSE inserted
                 /\ n_indexed' = n_indexed + 1
                 /\ chunk_i' = chunk_i + 1
                 /\ UNCHANGED <<ipc, failed_call>>
    /\ UNCHANGED <<documents, doc_i>>
    /\ UNCHANGED <<chunkVars, runVars, schedVars, otherVars>>

\* main.rs:186: the outer for loop goes to the next document
index_next_document ==
    /\ ipc = "loop"
    /\ doc_i <= Len(documents)
    /\ chunk_i = documents[doc_i]
    /\ doc_i' = doc_i + 1
    /\ chunk_i' = 0
    /\ UNCHANGED <<documents, batch, n_indexed, inserted, failed_call, ipc>>
    /\ UNCHANGED <<chunkVars, runVars, schedVars, otherVars>>

\* main.rs:212-217: the remainder is inserted (`?`) and the count returned
index_return ==
    /\ ipc = "loop"
    /\ doc_i > Len(documents)
    /\ \E insert_ok \in BOOLEAN :
         IF batch # <<>> /\ ~insert_ok
         THEN /\ ipc' = "err"
              /\ failed_call' = <<"insert", doc_i>>
              /\ UNCHANGED <<batch, inserted>>
         ELSE /\ ipc' = "ok"
              /\ inserted' = IF batch # <<>> THEN Append(inserted, batch) ELSE inserted
              /\ batch' = <<>>
              /\ UNCHANGED failed_call
    /\ UNCHANGED <<documents, doc_i, chunk_i, n_indexed>>
    /\ UNCHANGED <<chunkVars, runVars, schedVars, otherVars>>

BatchNext == index_chunk \/ index_next_document \/ index_return

SpecBatch == BatchInit /\ [][BatchNext]_vars

\* The number of chunks of the first d documents
ChunksBefore(docs, d) == SumSeq(SubSeq(docs, 1, d))

\* The chunks of the documents, document by document and chunk by chunk
AllChunks(docs) ==
    [p \in 1..SumSeq(docs) |->
        LET d == CHOOSE e \in DOMAIN docs :
                    ChunksBefore(docs, e - 1) < p /\ p <= ChunksBefore(docs, e)
        IN <<d, p - ChunksBefore(docs, d - 1)>>]

RECURSIVE Flatten(_)
Flatten(bs) == IF bs = <<>> THEN <<>> ELSE Head(bs) \o Flatten(Tail(bs))

\* C18: a call in which nothing fails has put every chunk in exactly one
\* insert call, in document-then-chunk order; no insert call has more than
\* 100 documents or none, every insert call but the last has exactly 100, and
\* the count returned is the number of chunks, which is the number inserted.
C18_Batching ==
    ipc = "ok" =>
        /\ Flatten(inserted) = AllChunks(documents)
        /\ \A i \in DOMAIN inserted :
              /\ Len(inserted[i]) >= 1
              /\ Len(inserted[i]) <= 100
              /\ i < Len(inserted) => Len(inserted[i]) = 100
        /\ n_indexed = SumSeq(documents)
        /\ n_indexed = Len(Flatten(inserted))

C18_Witness ==
    /\ ipc = "ok"
    /\ documents = <<BatchLimit - 1, BatchLimit + 1>>
    /\ Len(inserted) = 2
    /\ Len(inserted[2]) = 100

\* C19: when the embedding of a chunk has failed, every chunk of the other
\* documents of the call is inserted all the same.
C19_OtherDocumentsIndexed ==
    (ipc \in {"ok", "err"} /\ failed_call # <<>> /\ failed_call[1] = "embed") =>
        \A d \in DOMAIN documents :
           d # failed_call[2] =>
              \A k \in 1..documents[d] :
                 \E i \in DOMAIN inserted, j \in 1..BatchLimit :
                    j <= Len(inserted[i]) /\ inserted[i][j] = <<d, k>>

----------------------------------------------------------------------------
\* The metadata store and the index (Spec).

\* C26: when an update run ends, by returning or by an error, the persisted
\* record of every source the run refreshed has the commit hash of the
\* content the table now holds for it.
C26_PersistedMatchesIndex ==
    [][(InRun /\ pc' = "idle") =>
          \A s \in DOMAIN updated :
             /\ s \in DOMAIN disk'
             /\ disk'[s].last_commit_hash = last_load[s]]_vars

\* The source the step of the update run works on
Processed == IF pc = "index" THEN {cur} ELSE todo \ todo'

\* C30: a step of the update run on a source changes neither the rows nor
\* the metadata record, in memory or persisted, of any other source.
C30_OtherSourcesUntouched ==
    [][(InRun /\ pc' \in {"loop", "index"}) =>
          \A o \in Srcs \ Processed :
             /\ SourceRows(table', o) = SourceRows(table, o)
             /\ (o \in DOMAIN mem') <=> (o \in DOMAIN mem)
             /\ o \in DOMAIN mem => mem'[o] = mem[o]
             /\ disk' = disk]_vars

\* The run has deleted the rows of a source and is inserting its chunks, while
\* the table holds rows of another tracked source
C30_Witness ==
    /\ cmd = "run" /\ pc = "index"
    /\ total_indexed > 0
    /\ Len(ops[cur]) >= 2 /\ ops[cur][1].op = "delete"
    /\ \E o \in Srcs \ {cur} :
          /\ SourceRows(table, o) # EmptyBag
          /\ o \in DOMAIN mem

\* C20: when no command runs and no call ever failed, every source label under
\* which the table holds chunks has a record in the persisted metadata store.
C20_IndexedIsTracked ==
    (pc = "idle" /\ ~any_failed) =>
        \A s \in list_sources(table) : s \in DOMAIN disk /\ disk[s].source = s

----------------------------------------------------------------------------
\* update check (main.rs:281-348) next to the update run.

\* An installation as in RunInit, in which besides some indexed sources (U)
\* have no metadata record: add_local_source leaves such sources behind.  The
\* remote is at any commit and stays there.
CheckInit ==
    /\ \E I \in {{}, Srcs}, R \in SUBSET {"github:b/y"}, U \in SUBSET LocalSrcs :
          /\ R \subseteq I
          /\ U \subseteq I
          /\ table = InitTable(I)
          /\ disk = [s \in I \ U |-> IF s \in GitSrcs THEN create_github_metadata(s, 1, 1)
                                     ELSE create_local_metadata(s, 1)]
          /\ tree = [s \in Srcs |-> IF (s \in I \/ s \in LocalSrcs) /\ s \notin R
                                    THEN 1 ELSE 0]
          /\ last_load = [s \in Srcs |-> IF s \in I THEN 1 ELSE 0]
    /\ upstream \in [GitSrcs -> 1..MaxCommit]
    /\ now = 1
    /\ pc = "idle" /\ cmd = "none" /\ entry = "cli" /\ force = FALSE /\ in_window = FALSE
    /\ mem = EmptyStore /\ listed = {} /\ todo = {} /\ cur = "none" /\ docs_ver = 0
    /\ total_indexed = 0 /\ updated = EmptyStore /\ skipped = EmptyStore
    /\ ops = NoOps /\ emptied = {} /\ prev_synced = {}
    /\ any_failed = FALSE /\ run_failed = FALSE
    /\ interval_hours \in 0..MaxInterval
    /\ results = EmptyStore
    /\ ChunkParked
    /\ SchedParked
    /\ BatchParked
    /\ HttpParked
    /\ LoadParked

\* main.rs:282-287: load_metadata, list_sources, is_in_download_window.  The
\* clock of the installation counts half hours.
handle_update_check ==
    /\ pc = "idle"
    /\ now < MaxClock
    /\ now' = now + 1
    /\ cmd' = "check"
    /\ pc' = "check"
    /\ mem' = disk
    /\ listed' = list_sources(table)
    /\ todo' = list_sources(table)
    /\ in_window' \in {is_in_download_window(w[1], w[2], hour) : w \in Windows, hour \in Hours}
    /\ results' = EmptyStore
    /\ UNCHANGED <<upstream, tree, table, disk, entry, force, cur, docs_ver,
                   total_indexed, updated, skipped, histVars, interval_hours>>
    /\ UNCHANGED <<chunkVars, schedVars, batchVars, httpVars, loadVars>>

\* main.rs:316-322: the record is stamped when the source is up to date
RecordsCheckWhenChanged(reason) ==
    reason \in {"Already up to date", "New commits available"}
RecordsCheck(reason) == reason = "Already up to date"

\* main.rs:289-346: the body of the for loop for one source
check_next_source(s) ==
    /\ pc = "check"
    /\ s \in todo
    /\ \E fetch_ok, hash_ok \in BOOLEAN :
         LET tracked == Tracked(mem, s)
             meta == mem[s]
             due == tracked /\ needs_check(SomeStamp(meta.last_check), now, interval_hours)
             is_git == due /\ meta.local_path /\ meta.owner
             exists == is_git /\ tree[s] # 0
             fetched == exists /\ fetch_ok
             head == upstream[s]
             hashed == fetched /\ (meta.last_commit_hash = 0 \/ hash_ok)
             reason == IF ~tracked THEN "Not tracked in metadata"
                       ELSE IF ~due THEN "Not due for check yet"
                       ELSE IF ~is_git THEN "Local source - no remote updates"
                       ELSE IF ~exists THEN "Local path not found"
                       ELSE IF ~fetched THEN "Failed to fetch updates"
                       ELSE IF ~hashed THEN "Error checking"
                       ELSE IF has_updates(meta, head) THEN "New commits available"
                       ELSE "Already up to date"
             needs_update == reason \in {"Not tracked in metadata", "New commits available"}
         IN /\ tree' = IF fetched THEN [tree EXCEPT ![s] = head] ELSE tree
            /\ mem' = IF RecordsCheck(reason) THEN upsert(mem, update_check_time(meta, now))
                      ELSE mem
            /\ results' = Put(results, s, [needs_update |-> needs_update, reason |-> reason])
            /\ any_failed' = (any_failed \/ reason \in {"Failed to fetch updates",
                                                        "Error checking"})
    /\ todo' = todo \ {s}
    /\ UNCHANGED <<upstream, table, disk, now, pc, cmd, entry, force, in_window, listed,
                   cur, docs_ver, total_indexed, updated, skipped, ops, last_load,
                   emptied, prev_synced, run_failed, interval_hours>>
    /\ UNCHANGED <<chunkVars, schedVars, batchVars, httpVars, loadVars>>

\* main.rs:348: scheduler.save_metadata(&metadata_store)?, then the report
check_save ==
    /\ pc = "check"
    /\ todo = {}
    /\ \E save_ok \in BOOLEAN :
         IF save_ok
         THEN /\ disk' = mem
              /\ Exit("ok", "none")
              /\ UNCHANGED <<emptied, any_failed>>
         ELSE /\ Abort("persistence")
              /\ UNCHANGED disk
    /\ results' = EmptyStore
    /\ UNCHANGED <<upstream, tree, table, now, last_load, interval_hours>>
    /\ UNCHANGED <<chunkVars, schedVars, batchVars, httpVars, loadVars>>

CheckNext ==
    \/ handle_update_check
    \/ \E s \in Srcs : check_next_source(s)
    \/ check_save
    \/ \E f \in BOOLEAN : handle_update_run(f)
    \/ run_gate
    \/ \E s \in Srcs : run_next_source(s)
    \/ index_documents_simple
    \/ run_refreshed
    \/ run_save

SpecCheck == CheckInit /\ [][CheckNext]_vars

\* The sources the running update run called clone_or_update for
FetchedInRun ==
    DOMAIN updated
    \cup {s \in DOMAIN skipped :
            skipped[s] \in {"Failed to fetch", "Error", "Already up to date"}}
    \cup (IF cmd = "run" /\ pc = "index" THEN {cur} ELSE {})

\* The sources the running update check called clone_or_update for
FetchedInCheck ==
    {s \in DOMAIN results :
        results[s].reason \in {"Failed to fetch updates", "Error checking",
                               "New commits available", "Already up to date"}}

\* C21: the update check and the update run call clone_or_update only for a
\* source whose persisted record is due for a check (needs_check is true).
C21_FetchOnlyWhenDue ==
    \A s \in FetchedInRun \cup FetchedInCheck :
       /\ s \in DOMAIN disk
       /\ needs_check(SomeStamp(disk[s].last_check), now, interval_hours)

\* C22: outside the download window the update check calls clone_or_update
\* for no source.
C22_CheckFetchesInWindow == FetchedInCheck # {} => in_window

\* The records of the store `new` are those of `old`, but for last_check of
\* the git sources that the results report as up to date
CheckFrame(old, new, res) ==
    /\ DOMAIN new = DOMAIN old
    /\ \A s \in DOMAIN old :
          /\ SameBut(new[s], old[s], {"last_check"})
          /\ new[s] # old[s] =>
                /\ s \in GitSrcs
                /\ s \in DOMAIN res
                /\ res[s].reason = "Already up to date"

\* C29: the update check makes no insert or delete call and changes nothing
\* in the metadata store, in memory or persisted, but last_check of the git
\* sources it found up to date.
C29_CheckFrame ==
    [][(cmd = "check" \/ cmd' = "check") =>
          /\ table' = table
          /\ ops' = ops
          /\ CheckFrame(disk, disk', results)
          /\ (pc = "check" /\ pc' = "check") => CheckFrame(mem, mem', results')]_vars

\* The check has found one git source up to date and stamped it, and another
\* with new commits
C29_Witness ==
    /\ cmd = "check" /\ pc = "check"
    /\ \E s, o \in GitSrcs :
          /\ s \in DOMAIN results /\ results[s].reason = "Already up to date"
          /\ mem[s].last_check # disk[s].last_check
          /\ mem[s].last_update = disk[s].last_update
          /\ o \in DOMAIN results /\ results[o].reason = "New commits available"
          /\ mem[o] = disk[o]

----------------------------------------------------------------------------
\* The server: add_github_source requests handled concurrently
\* (server/mod.rs:124-213, 319-341).

Requests == {"r1", "r2"}

\* The run variables the handlers do not touch
httpFrame == <<now, procVars, histVars>>

\* An installation as in RunInit, the server running, and one
\* POST /sources/github accepted for each request.
HttpInit ==
    /\ \E I \in {{}, Srcs} :
          /\ table = InitTable(I)
          /\ disk = [s \in I |-> IF s \in GitSrcs THEN create_github_metadata(s, 1, 1)
                                 ELSE create_local_metadata(s, 1)]
          /\ tree = [s \in Srcs |-> IF s \in I \/ s \in LocalSrcs THEN 1 ELSE 0]
          /\ last_load = [s \in Srcs |-> IF s \in I THEN 1 ELSE 0]
    /\ upstream \in [GitSrcs -> 1..MaxCommit]
    /\ now = 1
    /\ pc = "serving" /\ cmd = "none" /\ entry = "http" /\ force = FALSE /\ in_window = FALSE
    /\ mem = EmptyStore /\ listed = {} /\ todo = {} /\ cur = "none" /\ docs_ver = 0
    /\ total_indexed = 0 /\ updated = EmptyStore /\ skipped = EmptyStore
    /\ ops = NoOps /\ emptied = {} /\ prev_synced = {}
    /\ any_failed = FALSE /\ run_failed = FALSE
    /\ reqs \in [Requests -> [source : GitSrcs, at : {"index"},
                              metadata_store : {EmptyStore}, warned : {FALSE}]]
    /\ ChunkParked
    /\ SchedParked
    /\ BatchParked
    /\ CheckParked
    /\ LoadParked

\* server/mod.rs:128-195: clone_or_update, load_repo, index_documents; an
\* error of any of them is the 500 response
add_github_source(r) ==
    /\ reqs[r].at = "index"
    /\ \E ok \in BOOLEAN :
         LET s == reqs[r].source
         IN IF ok
            THEN /\ tree' = [tree EXCEPT ![s] = upstream[s]]
                 /\ table' = table (+) SetToBag(IndexedRows(s, upstream[s], 0))
                 /\ reqs' = [reqs EXCEPT ![r].at = "load"]
            ELSE /\ reqs' = [reqs EXCEPT ![r].at = "failed"]
                 /\ UNCHANGED <<tree, table>>
    /\ UNCHANGED <<upstream, disk, httpFrame>>
    /\ UNCHANGED <<chunkVars, schedVars, batchVars, checkVars, loadVars>>

\* server/mod.rs:327-335: Scheduler::new and load_metadata; the handler only
\* logs an error of save_source_metadata (server/mod.rs:197-206)
load_metadata(r) ==
    /\ reqs[r].at = "load"
    /\ \E ok \in BOOLEAN :
         reqs' = IF ok THEN [reqs EXCEPT ![r].at = "save", ![r].metadata_store = disk]
                 ELSE [reqs EXCEPT ![r].at = "done", ![r].warned = TRUE]
    /\ UNCHANGED <<upstream, tree, table, disk, httpFrame>>
    /\ UNCHANGED <<chunkVars, schedVars, batchVars, checkVars, loadVars>>

\* server/mod.rs:336-338: create_github_metadata, upsert, save_metadata, and
\* the 200 response of the handler
save_metadata(r) ==
    /\ reqs[r].at = "save"
    /\ \E ok \in BOOLEAN :
         LET s == reqs[r].source
             written == upsert(reqs[r].metadata_store,
                               create_github_metadata(s, tree[s], now))
         IN IF ok
            THEN /\ disk' = written
                 /\ reqs' = [reqs EXCEPT ![r].at = "done", ![r].metadata_store = written]
            ELSE /\ reqs' = [reqs EXCEPT ![r].at = "done", ![r].warned = TRUE]
                 /\ UNCHANGED disk
    /\ UNCHANGED <<upstream, tree, table, httpFrame>>
    /\ UNCHANGED <<chunkVars, schedVars, batchVars, checkVars, loadVars>>

HttpNext ==
    \/ \E r \in Requests : add_github_source(r)
    \/ \E r \in Requests : load_metadata(r)
    \/ \E r \in Requests : save_metadata(r)

SpecHttp == HttpInit /\ [][HttpNext]_vars

\* C27: when two add_github_source requests for different repositories have
\* both returned success and nothing failed, the persisted metadata store
\* has the records of both sources.
C27_BothRecorded ==
    \A r, q \in Requests :
       (/\ reqs[r].source # reqs[q].source
        /\ reqs[r].at = "done" /\ ~reqs[r].warned
        /\ reqs[q].at = "done" /\ ~reqs[q].warned) =>
           (reqs[r].source \in DOMAIN disk /\ reqs[q].source \in DOMAIN disk)

----------------------------------------------------------------------------
\* The loaders: GitHubLoader::load_repo (loaders/github.rs:51-117) and
\* LocalLoader::load_directory (loaders/local.rs:15-83).

\* Bound: the number of entries the walk yields.
MaxEntries == 2

\* loaders/github.rs:54-57
github_code_extensions ==
    {"rs", "py", "js", "ts", "jsx", "tsx", "go", "java", "c", "cpp", "h", "hpp", "rb",
     "php", "swift", "kt", "scala", "lua", "r", "zig"}

\* loaders/local.rs:18-22
local_code_extensions ==
    github_code_extensions \cup {"toml", "yaml", "yml", "json", "sql", "sh", "bash"}

\* loaders/github.rs:59, loaders/local.rs:24
doc_extensions == {"md", "txt", "rst", "adoc", "org"}

\* str::to_lowercase on the extensions of the entries below
to_lowercase(ext) == IF ext = "RS" THEN "rs" ELSE IF ext = "MD" THEN "md" ELSE ext

\* loaders/github.rs:82-85 and loaders/local.rs:44-51: the extension as the
\* loader compares it, and its two tests
Extension(v, e) == IF v = "local" THEN to_lowercase(e.ext) ELSE e.ext
is_code(v, e) ==
    Extension(v, e) \in (IF v = "local" THEN local_code_extensions
                         ELSE github_code_extensions)
is_doc(v, e) == Extension(v, e) \in doc_extensions

\* loaders/github.rs:74-80: the directories whose files load_repo skips
SkippedDirs == {".git", "target", "node_modules", "__pycache__"}

\* An entry of the walk: an error of the walk or a path; the directory the
\* path is under, its extension, whether read_to_string succeeds, and whether
\* the content is blank.
Entry(walk_ok, is_dir, dir, ext, readable, blank) ==
    [walk_ok |-> walk_ok, is_dir |-> is_dir, dir |-> dir, ext |-> ext,
     readable |-> readable, blank |-> blank]

EntryKinds ==
    {Entry(FALSE, FALSE, "src", "rs", TRUE, FALSE),
     Entry(TRUE, TRUE, "src", "", TRUE, TRUE),
     Entry(TRUE, FALSE, "src", "rs", TRUE, FALSE),
     Entry(TRUE, FALSE, "src", "md", TRUE, FALSE),
     Entry(TRUE, FALSE, "src", "rs", FALSE, FALSE),
     Entry(TRUE, FALSE, "src", "md", TRUE, TRUE),
     Entry(TRUE, FALSE, "src", "bin", TRUE, FALSE),
     Entry(TRUE, FALSE, "node_modules", "js", TRUE, FALSE),
     Entry(TRUE, FALSE, "src", "toml", TRUE, FALSE),
     Entry(TRUE, FALSE, "src", "RS", TRUE, FALSE)}

\* load_repo is called on repos_path.join("owner-repo"), a path with a final
\* component; load_directory on the path the user gave ("." and "/" have none).
LoadInit ==
    /\ variant \in {"github", "local"}
    /\ root_named \in (IF variant = "github" THEN {TRUE} ELSE BOOLEAN)
    /\ entries \in SeqsUpTo(EntryKinds, MaxEntries)
    /\ entry_i = 1
    /\ load_results = <<>>
    /\ lpc = "walk"
    /\ ChunkParked
    /\ RunParked
    /\ SchedParked
    /\ BatchParked
    /\ CheckParked
    /\ HttpParked

\* loaders/github.rs:61-113 and loaders/local.rs:26-79: one iteration of the
\* for loop.  The chunker returns at least one chunk for a content that is
\* not blank, so a file that gets this far is pushed; file_name().unwrap()
\* panics when the root has no final component.
load_entry ==
    /\ lpc = "walk"
    /\ entry_i <= Len(entries)
    /\ LET e == entries[entry_i]
           skipped_by_path == variant = "github" /\ e.dir \in SkippedDirs
           chunked == /\ e.walk_ok
                      /\ ~e.is_dir
                      /\ ~skipped_by_path
                      /\ (is_code(variant, e) \/ is_doc(variant, e))
                      /\ e.readable
                      /\ ~e.blank
           mode == IF is_code(variant, e) THEN "chunk_code" ELSE "chunk_by_paragraphs"
       IN IF chunked /\ ~root_named
          THEN /\ lpc' = "panic"
               /\ UNCHANGED <<entry_i, load_results>>
          ELSE /\ load_results' = IF chunked THEN Append(load_results, <<entry_i, mode>>) ELSE load_results
               /\ entry_i' = entry_i + 1
               /\ UNCHANGED lpc
    /\ UNCHANGED <<variant, root_named, entries>>
    /\ UNCHANGED <<chunkVars, runVars, schedVars, batchVars, checkVars, httpVars>>

\* loaders/github.rs:115-116 and loaders/local.rs:81-82: Ok(results)
load_return ==
    /\ lpc = "walk"
    /\ entry_i > Len(entries)
    /\ lpc' = "ok"
    /\ UNCHANGED <<variant, root_named, entries, entry_i, load_results>>
    /\ UNCHANGED <<chunkVars, runVars, schedVars, batchVars, checkVars, httpVars>>

LoadNext == load_entry \/ load_return

SpecLoad == LoadInit /\ [][LoadNext]_vars

\* The entries that are eligible files (allow-listed extension, not under a
\* skipped directory), readable, with content that is not blank
Expected ==
    {i \in DOMAIN entries :
        /\ entries[i].walk_ok /\ ~entries[i].is_dir
        /\ is_code(variant, entries[i]) \/ is_doc(variant, entries[i])
        /\ entries[i].dir \notin SkippedDirs
        /\ entries[i].readable /\ ~entries[i].blank}

\* C23: whatever files cannot be read, the discovery pass of either loader
\* succeeds and returns exactly one document for each eligible file that is
\* readable and not blank, and none for any other entry.
C23_FailOpen ==
    /\ lpc # "panic"
    /\ lpc = "ok" =>
          /\ {load_results[k][1] : k \in DOMAIN load_results} = Expected
          /\ Len(load_results) = Cardinality(Expected)

====
